---- MODULE Spec2Model ----
(***************************************************************************)
(* A model of the protocol and storage core of simple-redis:               *)
(*   - the hash commands HGET / HSET / HGETALL (src/src/cmd/hmap.rs),      *)
(*     executed one at a time (Spec) and by concurrent executors           *)
(*     (ConcSpec), and their construction from a RespArray (CmdSpec);      *)
(*   - the RESP encoder (src/src/resp/encode.rs) and its round trip        *)
(*     through the decoder (EncSpec).                                      *)
(* Strings and byte vectors are sequences of one-character strings.        *)
(***************************************************************************)
EXTENDS Integers, Sequences, FiniteSets, TLC

VARIABLES
    hmap,      \* Backend.hmap: key -> (field -> RespFrame), partial
    op,        \* the command executed last (sequential executor)
    reply,     \* the frame that command replied
    last,      \* history: the value of the most recent HSet per (key, field)
    pc,        \* concurrent executors: position of each executor
    cmd,       \* concurrent executors: the command each one runs
    res,       \* concurrent executors: the reply each one got
    iter,      \* concurrent executors: the iteration of each HGetAll
    applied,   \* history: the values inserted per (key, field), in order
    returned,  \* history: how many of these writes have returned
    floor,     \* history: per reader, returned[k][f] of the fields it reads, at its call
    seen,      \* history: per writer, the index in applied of its insert
    frame,     \* encoder: the frame to encode
    bytes,     \* encoder: the encoding of frame
    outcome,   \* decoder: the outcome of decoding bytes
    input,     \* command model: the RespArray to parse
    parsed     \* command model: the result of the last try_from

storeVars == <<hmap, op, reply, last>>
concVars == <<pc, cmd, res, iter, applied, returned, floor, seen>>
encVars == <<frame, bytes, outcome>>
cmdVars == <<input, parsed>>
vars == <<hmap, op, reply, last, pc, cmd, res, iter, applied, returned, floor,
          seen, frame, bytes, outcome, input, parsed>>

----------------------------------------------------------------------------
(* RespFrame: a tagged union, [type, val].                                 *)

SimpleString(s) == [type |-> "SimpleString", val |-> s]
SimpleError(s) == [type |-> "Error", val |-> s]
Integer(i) == [type |-> "Integer", val |-> i]
BulkString(b) == [type |-> "BulkString", val |-> b]
RespNullBulkString == [type |-> "NullBulkString", val |-> <<>>]
RespArray(a) == [type |-> "Array", val |-> a]
RespNullArray == [type |-> "NullArray", val |-> <<>>]
RespNull == [type |-> "Null", val |-> <<>>]
Boolean(b) == [type |-> "Boolean", val |-> b]
Double(d) == [type |-> "Double", val |-> d]
RespMap(m) == [type |-> "Map", val |-> m]
RespSet(s) == [type |-> "Set", val |-> s]

\* cmd::RESP_OK, the canonical "+OK" reply
RESP_OK == SimpleString(<<"O", "K">>)

\* RespMap::new(): a map without entries
RespMap_new == <<>>

\* RespMap::insert(key, value) on the underlying ordered map
RespMap_insert(m, k, v) ==
    [x \in DOMAIN m \cup {k} |-> IF x = k THEN v ELSE m[x]]

----------------------------------------------------------------------------
(* Backend: the hash store.                                                *)

Keys == {<<"k", "1">>, <<"k", "2">>}
Fields == {<<"f", "1">>, <<"f", "2">>}
Values == {BulkString(<<"h", "h">>), BulkString(<<"i", "i">>), Integer(1)}

\* Backend::new(): no key is present
Backend_new == <<>>

\* hmap.entry(key).or_default(): the key's nested mapping, created when absent
Backend_entry_or_default(store, key) ==
    IF key \in DOMAIN store
    THEN store
    ELSE [x \in DOMAIN store \cup {key} |-> IF x = key THEN <<>> ELSE store[x]]

\* A plausible slip: a field already present keeps its older value
Backend_insert_keep(store, key, field, value) ==
    [store EXCEPT ![key] =
        [x \in DOMAIN store[key] \cup {field} |->
            IF x \in DOMAIN store[key] THEN store[key][x] ELSE value]]

\* inner.insert(field, value) on the nested mapping of a present key
Backend_insert(store, key, field, value) ==
    [store EXCEPT ![key] =
        [x \in DOMAIN store[key] \cup {field} |->
            IF x = field THEN value ELSE store[key][x]]]

\* A plausible slip: a partial write, the first write to a key stops after
\* creating the nested mapping
Backend_hset_partial(store, key, field, value) ==
    IF key \in DOMAIN store
    THEN Backend_insert(store, key, field, value)
    ELSE Backend_entry_or_default(store, key)

\* Backend::hset: create the nested mapping if absent, then insert/overwrite
Backend_hset(store, key, field, value) ==
    Backend_insert(Backend_entry_or_default(store, key), key, field, value)

\* Backend::hget: None when the key or the field is absent
Backend_hget(store, key, field) ==
    IF key \in DOMAIN store /\ field \in DOMAIN store[key]
    THEN [some |-> TRUE, value |-> store[key][field]]
    ELSE [some |-> FALSE, value |-> RespNull]

\* The orders in which iterating a nested mapping may enumerate its fields
Enumerations(m) ==
    LET n == Cardinality(DOMAIN m)
    IN {s \in [1..n -> DOMAIN m] : \A i, j \in 1..n : s[i] = s[j] => i = j}

----------------------------------------------------------------------------
(* CommandExecutor implementations.  Each yields the reply and the store   *)
(* the execution leaves behind.                                            *)

\* A plausible slip: an absent field replies the canonical OK instead of Null
HGet_execute_ok(store, key, field) ==
    LET r == Backend_hget(store, key, field)
    IN [reply |-> IF r.some THEN r.value ELSE RESP_OK, hmap |-> store]

HGet_execute(store, key, field) ==
    LET r == Backend_hget(store, key, field)
    IN [reply |-> IF r.some THEN r.value ELSE RespNull, hmap |-> store]

\* A plausible slip: the nested mapping is replaced instead of inserted into
HSet_execute_replace(store, key, field, value) ==
    [reply |-> RESP_OK,
     hmap |-> Backend_insert(
                  [x \in DOMAIN store \cup {key} |->
                      IF x = key THEN <<>> ELSE store[x]],
                  key, field, value)]

\* A plausible slip: an existing field keeps its first value
HSet_execute_keep(store, key, field, value) ==
    [reply |-> RESP_OK,
     hmap |-> IF Backend_hget(store, key, field).some
              THEN store
              ELSE Backend_hset(store, key, field, value)]

HSet_execute(store, key, field, value) ==
    [reply |-> RESP_OK, hmap |-> Backend_hset(store, key, field, value)]

RECURSIVE CollectMap(_, _, _)
\* the loop of HGetAll::execute: insert every enumerated entry into resp_map
CollectMap(inner, order, resp_map) ==
    IF order = <<>>
    THEN resp_map
    ELSE CollectMap(inner, Tail(order),
                    RespMap_insert(resp_map, Head(order), inner[Head(order)]))

\* A plausible slip: the loop stops after the first enumerated entry
HGetAll_execute_first(store, key, order) ==
    IF key \in DOMAIN store
    THEN [reply |-> RespMap(CollectMap(store[key], SubSeq(order, 1, 1), RespMap_new)),
          hmap |-> store]
    ELSE [reply |-> RespArray(<<>>), hmap |-> store]

\* A plausible slip: the lookup uses entry().or_default() and creates the key
HGetAll_execute_entry(store, key, order) ==
    IF key \in DOMAIN store
    THEN [reply |-> RespMap(CollectMap(store[key], order, RespMap_new)),
          hmap |-> store]
    ELSE [reply |-> RespArray(<<>>), hmap |-> Backend_entry_or_default(store, key)]

HGetAll_execute(store, key, order) ==
    IF key \in DOMAIN store
    THEN [reply |-> RespMap(CollectMap(store[key], order, RespMap_new)),
          hmap |-> store]
    ELSE [reply |-> RespArray(<<>>), hmap |-> store]

\* The enumeration orders HGetAll may meet for a key
OrdersOf(store, key) ==
    IF key \in DOMAIN store THEN Enumerations(store[key]) ELSE {<<>>}

----------------------------------------------------------------------------
(* Sequential executor: one command at a time against one Backend.         *)

Unwritten == [type |-> "Unwritten", val |-> <<>>]
NoOp == [name |-> "none", key |-> <<>>, field |-> <<>>, value |-> RespNull]

ConcIdle ==
    /\ pc = <<>> /\ cmd = <<>> /\ res = <<>> /\ iter = <<>>
    /\ applied = <<>> /\ returned = <<>> /\ floor = <<>> /\ seen = <<>>
EncIdle == frame = RespNull /\ bytes = <<>> /\ outcome = <<>>
CmdIdle == input = <<>> /\ parsed = <<>>

Init ==
    /\ hmap = Backend_new
    /\ op = NoOp
    /\ reply = RespNull
    /\ last = [k \in Keys |-> [f \in Fields |-> Unwritten]]
    /\ ConcIdle /\ EncIdle /\ CmdIdle

ExecHSet ==
    \E k \in Keys, f \in Fields, v \in Values :
        LET r == HSet_execute(hmap, k, f, v)
        IN /\ hmap' = r.hmap
           /\ reply' = r.reply
           /\ op' = [name |-> "HSet", key |-> k, field |-> f, value |-> v]
           /\ last' = [last EXCEPT ![k][f] = v]
           /\ UNCHANGED <<concVars, encVars, cmdVars>>

ExecHGet ==
    \E k \in Keys, f \in Fields :
        LET r == HGet_execute(hmap, k, f)
        IN /\ hmap' = r.hmap
           /\ reply' = r.reply
           /\ op' = [name |-> "HGet", key |-> k, field |-> f, value |-> RespNull]
           /\ UNCHANGED <<last, concVars, encVars, cmdVars>>

ExecHGetAll ==
    \E k \in Keys :
        \E order \in OrdersOf(hmap, k) :
            LET r == HGetAll_execute(hmap, k, order)
            IN /\ hmap' = r.hmap
               /\ reply' = r.reply
               /\ op' = [name |-> "HGetAll", key |-> k, field |-> <<>>,
                         value |-> RespNull]
               /\ UNCHANGED <<last, concVars, encVars, cmdVars>>

Next == ExecHSet \/ ExecHGet \/ ExecHGetAll

Spec == Init /\ [][Next]_vars

----------------------------------------------------------------------------
(* Properties of the sequential executor.                                  *)

Written(k, f) == last[k][f] # Unwritten
WrittenFields(k) == {f \in Fields : Written(k, f)}
\* The pairs most recently written under key k
LastPairs(k) == [f \in WrittenFields(k) |-> last[k][f]]

\* C1: after any sequence of HSet, HGet and HGetAll executions, HGet(k, f)
\* replies exactly the value of the most recent HSet(k, f, v), for every key
\* and field that has been written; a later HSet overwrites the earlier value.
C1_WriteThenRead ==
    /\ (op.name = "HGet" /\ Written(op.key, op.field))
           => reply = last[op.key][op.field]
    /\ \A k \in Keys, f \in Fields :
           Written(k, f) => HGet_execute(hmap, k, f).reply = last[k][f]

C1_Witness ==
    /\ op.name = "HGet"
    /\ Written(op.key, op.field)
    /\ reply = last[op.key][op.field]
    /\ \E f \in Fields : Written(op.key, f) /\ last[op.key][f] # reply

\* C2: executing HSet(k, f, v) changes only the entry (k, f): for every other
\* pair (k', f'), sibling field or field of another key, HGet(k', f') replies
\* the same before and after the HSet.
C2_HSetFrame ==
    [][op'.name = "HSet" =>
          \A k \in Keys, f \in Fields :
              <<k, f>> # <<op'.key, op'.field>> =>
                  HGet_execute(hmap', k, f).reply = HGet_execute(hmap, k, f).reply]_vars

C2_Witness ==
    /\ op.name = "HSet"
    /\ \E f \in Fields : f # op.field /\ Written(op.key, f)
                         /\ HGet_execute(hmap, op.key, f).reply # op.value
    /\ \E k \in Keys, f \in Fields : k # op.key /\ Written(k, f)

\* C3: for a key written by at least one HSet, HGetAll(k) replies a Map frame
\* whose pairs are exactly the fields stored for k, each with its most recently
\* written value, whatever the order in which the store enumerates them.
C3_HGetAllExact ==
    /\ (op.name = "HGetAll" /\ WrittenFields(op.key) # {})
           => reply = RespMap(LastPairs(op.key))
    /\ \A k \in Keys :
           WrittenFields(k) # {} =>
               \A order \in OrdersOf(hmap, k) :
                   HGetAll_execute(hmap, k, order).reply = RespMap(LastPairs(k))

C3_Witness ==
    /\ op.name = "HGetAll"
    /\ WrittenFields(op.key) = Fields
    /\ \E f, g \in Fields : last[op.key][f] # last[op.key][g]
    /\ \E k \in Keys : k # op.key /\ WrittenFields(k) # {}
    /\ reply = RespMap(LastPairs(op.key))

\* C4: HGet(k, f) replies Null whenever key k or field f under k has never been
\* written, and HGetAll(k) replies an empty Array (not an empty Map, not Null)
\* whenever key k has never been written.
C4_AbsentReplies ==
    /\ (op.name = "HGet" /\ ~Written(op.key, op.field)) => reply = RespNull
    /\ (op.name = "HGetAll" /\ WrittenFields(op.key) = {})
           => reply = RespArray(<<>>)
    /\ \A k \in Keys :
           /\ \A f \in Fields :
                  ~Written(k, f) => HGet_execute(hmap, k, f).reply = RespNull
           /\ WrittenFields(k) = {} =>
                  HGetAll_execute(hmap, k, <<>>).reply = RespArray(<<>>)

C4_Witness ==
    /\ op.name = "HGetAll"
    /\ WrittenFields(op.key) = {}
    /\ reply = RespArray(<<>>)
    /\ \E k \in Keys, f, g \in Fields :
           /\ Written(k, f) /\ ~Written(k, g)
           /\ HGet_execute(hmap, k, g).reply = RespNull
           /\ HGet_execute(hmap, op.key, g).reply = RespNull

\* The replies every later read would give in a store
Replies(store) ==
    [get |-> [k \in Keys |-> [f \in Fields |-> HGet_execute(store, k, f).reply]],
     all |-> [k \in Keys |->
                 {HGetAll_execute(store, k, order).reply :
                      order \in OrdersOf(store, k)}]]

\* C9: HGet and HGetAll never change the store: executing either, on a present
\* or an absent key or field, leaves the reply of every later HGet and HGetAll
\* unchanged; a read of an absent key does not create it, so HGetAll on it
\* still replies an empty Array.
C9_ReadsFrame ==
    [][op'.name \in {"HGet", "HGetAll"} =>
          /\ Replies(hmap') = Replies(hmap)
          /\ op'.key \notin DOMAIN hmap =>
                 Replies(hmap').all[op'.key] = {RespArray(<<>>)}]_vars

C9_Witness ==
    /\ op.name = "HGetAll"
    /\ op.key \notin DOMAIN hmap
    /\ reply = RespArray(<<>>)
    /\ Replies(hmap).all[op.key] = {RespArray(<<>>)}
    /\ \E k \in Keys : k \in DOMAIN hmap

----------------------------------------------------------------------------
(* Concurrent executors sharing the one Backend.  A command is called, runs *)
(* against the store and returns.  HSet::execute and HGet::execute are one  *)
(* Backend call each, and a Backend call is a single atomic operation.      *)
(* HGetAll::execute looks the key up and then iterates the live nested      *)
(* mapping entry by entry; the other executors run between its steps.       *)

NumProcs == 2
MaxWrites == 2

Procs == 1..NumProcs
\* The histories and the properties below are per key: the executors contend
\* for one key and its fields
ConcKeys == {<<"k", "1">>}
NoCmd == [name |-> "none", key |-> <<>>, field |-> <<>>, value |-> RespNull]
ZeroFields == [f \in Fields |-> 0]
NoIter == [first |-> {}, acc |-> RespMap_new]
Max(a, b) == IF a >= b THEN a ELSE b

\* The HSet commands called so far that have not returned, plus those applied
RECURSIVE SumLen(_, _)
SumLen(cells, hist) ==
    IF cells = {}
    THEN 0
    ELSE LET c == CHOOSE x \in cells : TRUE
         IN Len(hist[c[1]][c[2]]) + SumLen(cells \ {c}, hist)
WritesStarted ==
    SumLen(ConcKeys \X Fields, applied)
        + Cardinality({p \in Procs : cmd[p].name = "HSet" /\ pc[p] = "called"})

ConcInit ==
    /\ hmap = Backend_new
    /\ pc = [p \in Procs |-> "idle"]
    /\ cmd = [p \in Procs |-> NoCmd]
    /\ res = [p \in Procs |-> RespNull]
    /\ iter = [p \in Procs |-> NoIter]
    /\ applied = [k \in ConcKeys |-> [f \in Fields |-> <<>>]]
    /\ returned = [k \in ConcKeys |-> ZeroFields]
    /\ floor = [p \in Procs |-> ZeroFields]
    /\ seen = [p \in Procs |-> 0]
    /\ op = NoOp /\ reply = RespNull /\ last = <<>>
    /\ EncIdle /\ CmdIdle

\* The boundary layer hands executor p an HSet command.  The n-th HSet called
\* writes Integer(n), so that a reply names the write it observed.
CallHSet(p) ==
    /\ pc[p] = "idle"
    /\ WritesStarted < MaxWrites
    /\ \E k \in ConcKeys, f \in Fields :
           cmd' = [cmd EXCEPT ![p] =
                      [name |-> "HSet", key |-> k, field |-> f,
                       value |-> Integer(WritesStarted + 1)]]
    /\ pc' = [pc EXCEPT ![p] = "called"]
    /\ UNCHANGED <<hmap, res, iter, applied, returned, floor, seen,
                   op, reply, last, encVars, cmdVars>>

\* The boundary layer hands executor p an HGet or HGetAll command
CallRead(p) ==
    /\ pc[p] = "idle"
    /\ \E k \in ConcKeys :
           \/ \E f \in Fields :
                  /\ cmd' = [cmd EXCEPT ![p] =
                                [name |-> "HGet", key |-> k, field |-> f,
                                 value |-> RespNull]]
                  /\ floor' = [floor EXCEPT ![p] =
                                  [ZeroFields EXCEPT ![f] = returned[k][f]]]
           \/ /\ cmd' = [cmd EXCEPT ![p] =
                             [name |-> "HGetAll", key |-> k, field |-> <<>>,
                              value |-> RespNull]]
              /\ floor' = [floor EXCEPT ![p] = returned[k]]
    /\ pc' = [pc EXCEPT ![p] = "called"]
    /\ UNCHANGED <<hmap, res, iter, applied, returned, seen,
                   op, reply, last, encVars, cmdVars>>

\* HSet::execute by executor p: the one call backend.hset(key, field, value),
\* then the reply RESP_OK
HSetRun(p) ==
    /\ pc[p] = "called" /\ cmd[p].name = "HSet"
    /\ LET k == cmd[p].key
           f == cmd[p].field
           r == HSet_execute(hmap, k, f, cmd[p].value)
       IN /\ hmap' = r.hmap
          /\ res' = [res EXCEPT ![p] = r.reply]
          /\ applied' = [applied EXCEPT ![k][f] = Append(@, cmd[p].value)]
          /\ seen' = [seen EXCEPT ![p] = Len(applied[k][f]) + 1]
    /\ pc' = [pc EXCEPT ![p] = "done"]
    /\ UNCHANGED <<cmd, iter, returned, floor, op, reply, last, encVars, cmdVars>>

\* HGet::execute by executor p: the one call backend.hget(key, field), then
\* the match on its result
HGetRun(p) ==
    /\ pc[p] = "called" /\ cmd[p].name = "HGet"
    /\ LET r == HGet_execute(hmap, cmd[p].key, cmd[p].field)
       IN /\ hmap' = r.hmap
          /\ res' = [res EXCEPT ![p] = r.reply]
    /\ pc' = [pc EXCEPT ![p] = "done"]
    /\ UNCHANGED <<cmd, iter, applied, returned, floor, seen,
                   op, reply, last, encVars, cmdVars>>

\* HGetAll::execute, the lookup backend.hmap.get(&key): an absent key replies
\* the empty Array; a present key starts the iteration with an empty resp_map
HGetAllGet(p) ==
    /\ pc[p] = "called" /\ cmd[p].name = "HGetAll"
    /\ IF cmd[p].key \in DOMAIN hmap
       THEN /\ iter' = [iter EXCEPT ![p] =
                           [first |-> DOMAIN hmap[cmd[p].key],
                            acc |-> RespMap_new]]
            /\ pc' = [pc EXCEPT ![p] = "iterating"]
            /\ res' = res
       ELSE /\ res' = [res EXCEPT ![p] = RespArray(<<>>)]
            /\ pc' = [pc EXCEPT ![p] = "done"]
            /\ iter' = iter
    /\ UNCHANGED <<hmap, cmd, applied, returned, floor, seen,
                   op, reply, last, encVars, cmdVars>>

\* HGetAll::execute, one turn of the loop over hmap.iter(): an entry of the
\* live nested mapping not yet visited is inserted into resp_map
HGetAllIter(p) ==
    /\ pc[p] = "iterating"
    /\ \E f \in DOMAIN hmap[cmd[p].key] \ DOMAIN iter[p].acc :
           iter' = [iter EXCEPT ![p].acc =
                       RespMap_insert(@, f, hmap[cmd[p].key][f])]
    /\ UNCHANGED <<hmap, pc, cmd, res, applied, returned, floor, seen,
                   op, reply, last, encVars, cmdVars>>

\* HGetAll::execute, the end of the loop: resp_map.into().  The iterator has
\* yielded every entry that was there when it started; an entry inserted
\* during the iteration is yielded or missed.
HGetAllReply(p) ==
    /\ pc[p] = "iterating"
    /\ iter[p].first \subseteq DOMAIN iter[p].acc
    /\ res' = [res EXCEPT ![p] = RespMap(iter[p].acc)]
    /\ pc' = [pc EXCEPT ![p] = "done"]
    /\ UNCHANGED <<hmap, cmd, iter, applied, returned, floor, seen,
                   op, reply, last, encVars, cmdVars>>

\* The reply is handed back; a returned HSet counts as completed
Return(p) ==
    /\ pc[p] = "done"
    /\ returned' =
           IF cmd[p].name = "HSet"
           THEN [returned EXCEPT ![cmd[p].key][cmd[p].field] = Max(@, seen[p])]
           ELSE returned
    /\ pc' = [pc EXCEPT ![p] = "idle"]
    /\ cmd' = [cmd EXCEPT ![p] = NoCmd]
    /\ res' = [res EXCEPT ![p] = RespNull]
    /\ iter' = [iter EXCEPT ![p] = NoIter]
    /\ floor' = [floor EXCEPT ![p] = ZeroFields]
    /\ seen' = [seen EXCEPT ![p] = 0]
    /\ UNCHANGED <<hmap, applied, op, reply, last, encVars, cmdVars>>

ConcNext ==
    \E p \in Procs :
        \/ CallHSet(p)
        \/ CallRead(p)
        \/ HSetRun(p)
        \/ HGetRun(p)
        \/ HGetAllGet(p)
        \/ HGetAllIter(p)
        \/ HGetAllReply(p)
        \/ Return(p)

ConcSpec == ConcInit /\ [][ConcNext]_vars

\* The values of the n-th HSet on (k, f) and of the later ones (n = 0: of all)
ValuesFrom(k, f, n) ==
    {applied[k][f][j] : j \in Max(n, 1)..Len(applied[k][f])}

\* C5: with several executors running HSet, HGet and HGetAll concurrently,
\* every read of (k, f) that starts after an HSet(k, f, v) has returned
\* observes v or the value of a later HSet on (k, f), never a partially applied
\* write or an older value.  A read that no returned HSet on (k, f) precedes
\* observes the field absent or the value of some HSet on (k, f).
C5_Linearizable ==
    \A p \in Procs :
        pc[p] = "done" =>
            /\ cmd[p].name = "HGet" =>
                   LET n == floor[p][cmd[p].field]
                   IN \/ n = 0 /\ res[p] = RespNull
                      \/ res[p] \in ValuesFrom(cmd[p].key, cmd[p].field, n)
            /\ cmd[p].name = "HGetAll" =>
                   \/ floor[p] = ZeroFields /\ res[p] = RespArray(<<>>)
                   \/ /\ res[p].type = "Map"
                      /\ DOMAIN res[p].val \subseteq Fields
                      /\ \A f \in Fields :
                             /\ floor[p][f] > 0 => f \in DOMAIN res[p].val
                             /\ f \in DOMAIN res[p].val =>
                                    res[p].val[f]
                                        \in ValuesFrom(cmd[p].key, f, floor[p][f])

\* A read called after the first HSet on a field returned and running while
\* the second is in flight replies the second value
C5_Witness ==
    \E p, q \in Procs :
        /\ pc[p] = "done" /\ cmd[p].name = "HGet"
        /\ pc[q] = "done" /\ cmd[q].name = "HSet"
        /\ cmd[q].key = cmd[p].key /\ cmd[q].field = cmd[p].field
        /\ floor[p][cmd[p].field] = 1
        /\ returned[cmd[p].key][cmd[p].field] = 1
        /\ seen[q] = 2
        /\ applied[cmd[p].key][cmd[p].field][1]
               # applied[cmd[p].key][cmd[p].field][2]
        /\ res[p] = applied[cmd[p].key][cmd[p].field][2]

----------------------------------------------------------------------------
(* RespEncode: Frame -> bytes.                                             *)

CRLF == <<"\r", "\n">>
DigitChars == <<"0", "1", "2", "3", "4", "5", "6", "7", "8", "9">>
IsDigit(c) == \E i \in 1..10 : DigitChars[i] = c
DigitVal(c) == (CHOOSE i \in 1..10 : DigitChars[i] = c) - 1

\* The characters of the model in byte order (the order of String's Ord)
Ascii == <<"\n", "\r", " ", "#", "$", "%", "*", "+", ",", "-", ".",
           "0", "1", "2", "3", "4", "5", "6", "7", "8", "9", ":",
           "A", "E", "G", "H", "K", "L", "O", "S", "T", "_",
           "a", "b", "e", "f", "g", "h", "i", "k", "l", "o", "r", "s", "t",
           "x", "~">>
Code(c) == CHOOSE i \in 1..Len(Ascii) : Ascii[i] = c

RECURSIVE StrLess(_, _)
\* a < b for strings: lexicographic by byte
StrLess(a, b) ==
    IF b = <<>> THEN FALSE
    ELSE IF a = <<>> THEN TRUE
    ELSE IF Head(a) # Head(b) THEN Code(Head(a)) < Code(Head(b))
    ELSE StrLess(Tail(a), Tail(b))

RECURSIVE NatToStr(_)
\* usize / unsigned Display: decimal digits, no sign, no padding
NatToStr(n) ==
    IF n < 10 THEN <<DigitChars[n + 1]>>
    ELSE NatToStr(n \div 10) \o <<DigitChars[(n % 10) + 1]>>

\* i64 Display: "-" before the digits of a negative number
IntToStr(i) == IF i < 0 THEN <<"-">> \o NatToStr(-i) ELSE NatToStr(i)

\* A double is held as its shortest decimal form  (-1)^neg * d.ddd * 10^exp:
\* digits has no leading and no trailing zero; zero is digits = <<"0">>, exp = 0
IsZero(d) == d.digits = <<"0">>

\* self.abs() > 1e+8
AbsGreater1e8(d) ==
    ~IsZero(d) /\ (d.exp > 8 \/ (d.exp = 8 /\ d.digits # <<"1">>))

\* self.abs() < 1e-8
AbsLess1em8(d) == IsZero(d) \/ d.exp < -8

\* self < 0.0
Negative(d) == d.neg /\ ~IsZero(d)

RECURSIVE Zeros(_)
Zeros(n) == IF n <= 0 THEN <<>> ELSE <<"0">> \o Zeros(n - 1)

\* f64 Display ("{}"): fixed point without exponent, "-" when negative
F64Display(d) ==
    LET n == Len(d.digits)
        body ==
            IF d.exp >= n - 1
            THEN d.digits \o Zeros(d.exp - (n - 1))
            ELSE IF d.exp >= 0
            THEN SubSeq(d.digits, 1, d.exp + 1) \o <<".">>
                     \o SubSeq(d.digits, d.exp + 2, n)
            ELSE <<"0", ".">> \o Zeros(-d.exp - 1) \o d.digits
    IN (IF d.neg THEN <<"-">> ELSE <<>>) \o body

\* f64 LowerExp with the sign flag ("{:+e}"): +d.ddde<exp>
F64SignedLowerExp(d) ==
    LET n == Len(d.digits)
    IN (IF d.neg THEN <<"-">> ELSE <<"+">>)
           \o <<Head(d.digits)>>
           \o (IF n > 1 THEN <<".">> \o Tail(d.digits) ELSE <<>>)
           \o <<"e">> \o IntToStr(d.exp)

SimpleString_encode(s) == <<"+">> \o s \o CRLF

SimpleError_encode(s) == <<"-">> \o s \o CRLF

i64_encode(i) ==
    LET sign == IF i < 0 THEN <<>> ELSE <<"+">>
    IN <<":">> \o sign \o IntToStr(i) \o CRLF

BulkString_encode(b) ==
    <<"$">> \o NatToStr(Len(b)) \o CRLF \o b \o CRLF

RespNullBulkString_encode == <<"$", "-", "1">> \o CRLF

RespNullArray_encode == <<"*", "-", "1">> \o CRLF

RespNull_encode == <<"_">> \o CRLF

bool_encode(b) == <<"#">> \o (IF b THEN <<"t">> ELSE <<"f">>) \o CRLF

f64_encode(d) ==
    IF AbsGreater1e8(d) \/ AbsLess1em8(d)
    THEN <<",">> \o F64SignedLowerExp(d) \o CRLF
    ELSE LET sign == IF Negative(d) THEN <<>> ELSE <<"+">>
         IN <<",">> \o sign \o F64Display(d) \o CRLF

\* The keys of a RespMap in the order its iteration yields them (ascending)
RECURSIVE SortedKeys(_)
SortedKeys(ks) ==
    IF ks = {} THEN <<>>
    ELSE LET k == CHOOSE x \in ks : \A y \in ks \ {x} : StrLess(x, y)
         IN <<k>> \o SortedKeys(ks \ {k})

RECURSIVE Encode(_)
RECURSIVE EncodeAll(_)
RECURSIVE EncodePairs(_, _)

\* the loop of RespArray::encode and RespSet::encode
EncodeAll(frames) ==
    IF frames = <<>> THEN <<>>
    ELSE Encode(Head(frames)) \o EncodeAll(Tail(frames))

\* A plausible slip: the key of a pair is written as a BulkString
EncodePairs_bulk(m, keys) ==
    IF keys = <<>> THEN <<>>
    ELSE BulkString_encode(Head(keys)) \o Encode(m[Head(keys)])
             \o EncodePairs(m, Tail(keys))

\* the loop of RespMap::encode
EncodePairs(m, keys) ==
    IF keys = <<>> THEN <<>>
    ELSE SimpleString_encode(Head(keys)) \o Encode(m[Head(keys)])
             \o EncodePairs(m, Tail(keys))

RespArray_encode(a) == <<"*">> \o NatToStr(Len(a)) \o CRLF \o EncodeAll(a)

RespMap_encode(m) ==
    <<"%">> \o NatToStr(Cardinality(DOMAIN m)) \o CRLF
        \o EncodePairs(m, SortedKeys(DOMAIN m))

RespSet_encode(a) == <<"~">> \o NatToStr(Len(a)) \o CRLF \o EncodeAll(a)

\* RespFrame::encode: dispatch on the variant
Encode(f) ==
    CASE f.type = "SimpleString" -> SimpleString_encode(f.val)
      [] f.type = "Error" -> SimpleError_encode(f.val)
      [] f.type = "Integer" -> i64_encode(f.val)
      [] f.type = "BulkString" -> BulkString_encode(f.val)
      [] f.type = "NullBulkString" -> RespNullBulkString_encode
      [] f.type = "Array" -> RespArray_encode(f.val)
      [] f.type = "NullArray" -> RespNullArray_encode
      [] f.type = "Null" -> RespNull_encode
      [] f.type = "Boolean" -> bool_encode(f.val)
      [] f.type = "Double" -> f64_encode(f.val)
      [] f.type = "Map" -> RespMap_encode(f.val)
      [] f.type = "Set" -> RespSet_encode(f.val)

----------------------------------------------------------------------------
(* RespDecode: bytes -> Complete(frame, consumed) | Incomplete | error.    *)

Complete(f, n) == [kind |-> "Complete", frame |-> f, used |-> n]
Incomplete == [kind |-> "Incomplete", frame |-> RespNull, used |-> 0]
ProtocolError == [kind |-> "ProtocolError", frame |-> RespNull, used |-> 0]
NoOutcome == [kind |-> "None", frame |-> RespNull, used |-> 0]

\* The index of the first CRLF at or after pos, 0 when there is none
FindCRLF(buf, pos) ==
    LET S == {i \in pos..(Len(buf) - 1) : buf[i] = "\r" /\ buf[i + 1] = "\n"}
    IN IF S = {} THEN 0 ELSE CHOOSE i \in S : \A j \in S : i <= j

\* The index of the first occurrence of one of cs in t, 0 when there is none
IndexOf(t, cs) ==
    LET S == {i \in 1..Len(t) : t[i] \in cs}
    IN IF S = {} THEN 0 ELSE CHOOSE i \in S : \A j \in S : i <= j

AllDigits(t) == \A i \in 1..Len(t) : IsDigit(t[i])

RECURSIVE StrToNat(_)
StrToNat(t) ==
    IF t = <<>> THEN 0
    ELSE StrToNat(SubSeq(t, 1, Len(t) - 1)) * 10 + DigitVal(t[Len(t)])

\* A signed decimal integer: an optional sign, then at least one digit
ParseInt(t) ==
    LET signed == t # <<>> /\ t[1] \in {"+", "-"}
        ds == IF signed THEN Tail(t) ELSE t
    IN IF ds # <<>> /\ AllDigits(ds)
       THEN [ok |-> TRUE,
             val |-> IF signed /\ t[1] = "-" THEN -StrToNat(ds) ELSE StrToNat(ds)]
       ELSE [ok |-> FALSE, val |-> 0]

\* The number of leading zeros of a digit string
RECURSIVE LeadingZeros(_)
LeadingZeros(t) ==
    IF t # <<>> /\ Head(t) = "0" THEN 1 + LeadingZeros(Tail(t)) ELSE 0

RECURSIVE StripTrailingZeros(_)
StripTrailingZeros(t) ==
    IF t # <<>> /\ t[Len(t)] = "0"
    THEN StripTrailingZeros(SubSeq(t, 1, Len(t) - 1))
    ELSE t

\* A numeric literal: [sign] digits [. digits] [e|E [sign] digits]
ParseDouble(t) ==
    LET signed == t # <<>> /\ t[1] \in {"+", "-"}
        neg == signed /\ t[1] = "-"
        body == IF signed THEN Tail(t) ELSE t
        epos == IndexOf(body, {"e", "E"})
        mant == IF epos = 0 THEN body ELSE SubSeq(body, 1, epos - 1)
        expt == IF epos = 0 THEN [ok |-> TRUE, val |-> 0]
                ELSE ParseInt(SubSeq(body, epos + 1, Len(body)))
        dot == IndexOf(mant, {"."})
        int == IF dot = 0 THEN mant ELSE SubSeq(mant, 1, dot - 1)
        frac == IF dot = 0 THEN <<>> ELSE SubSeq(mant, dot + 1, Len(mant))
        all == int \o frac
        z == LeadingZeros(all)
    IN IF all = <<>> \/ ~AllDigits(all) \/ ~expt.ok
       THEN [ok |-> FALSE, val |-> [neg |-> FALSE, digits |-> <<"0">>, exp |-> 0]]
       ELSE IF z = Len(all)
       THEN [ok |-> TRUE, val |-> [neg |-> neg, digits |-> <<"0">>, exp |-> 0]]
       ELSE [ok |-> TRUE,
             val |-> [neg |-> neg,
                      digits |-> StripTrailingZeros(SubSeq(all, z + 1, Len(all))),
                      exp |-> Len(int) - 1 - z + expt.val]]

\* Outcome of a partial decode: the frame(s) and the index of the next byte
At(f, next) == [kind |-> "Complete", frame |-> f, next |-> next]
IncompleteAt == [kind |-> "Incomplete", frame |-> RespNull, next |-> 0]
ErrorAt == [kind |-> "ProtocolError", frame |-> RespNull, next |-> 0]

RECURSIVE DecodeAt(_, _)
RECURSIVE DecodeSeq(_, _, _, _)
RECURSIVE DecodePairs(_, _, _, _)

\* Decode n further frames from pos, appended to acc
DecodeSeq(buf, pos, n, acc) ==
    IF n = 0 THEN At(acc, pos)
    ELSE LET r == DecodeAt(buf, pos)
         IN IF r.kind # "Complete" THEN r
            ELSE DecodeSeq(buf, r.next, n - 1, Append(acc, r.frame))

\* Decode n further (SimpleString key, value) pairs from pos, inserted into acc
DecodePairs(buf, pos, n, acc) ==
    IF n = 0 THEN At(acc, pos)
    ELSE LET k == DecodeAt(buf, pos)
         IN IF k.kind # "Complete" THEN k
            ELSE IF k.frame.type # "SimpleString" THEN ErrorAt
            ELSE LET v == DecodeAt(buf, k.next)
                 IN IF v.kind # "Complete" THEN v
                    ELSE DecodePairs(buf, v.next, n - 1,
                                     RespMap_insert(acc, k.frame.val, v.frame))

\* Decode the frame that starts at pos
DecodeAt(buf, pos) ==
    IF pos > Len(buf) THEN IncompleteAt
    ELSE IF buf[pos] \notin {"+", "-", ":", "$", "*", "_", "#", ",", "%", "~"}
    THEN ErrorAt
    ELSE
    LET tag == buf[pos]
        end == FindCRLF(buf, pos + 1)
        line == SubSeq(buf, pos + 1, end - 1)
        next == end + 2
        num == ParseInt(line)
    IN IF end = 0 THEN IncompleteAt
       ELSE CASE tag = "+" -> At(SimpleString(line), next)
              [] tag = "-" -> At(SimpleError(line), next)
              [] tag = ":" ->
                    IF num.ok THEN At(Integer(num.val), next) ELSE ErrorAt
              [] tag = "$" ->
                    IF ~num.ok \/ num.val < -1 THEN ErrorAt
                    ELSE IF num.val = -1 THEN At(RespNullBulkString, next)
                    ELSE IF next + num.val + 1 > Len(buf) THEN IncompleteAt
                    ELSE IF SubSeq(buf, next + num.val, next + num.val + 1) # CRLF
                    THEN ErrorAt
                    ELSE At(BulkString(SubSeq(buf, next, next + num.val - 1)),
                            next + num.val + 2)
              [] tag = "*" ->
                    IF ~num.ok \/ num.val < -1 THEN ErrorAt
                    ELSE IF num.val = -1 THEN At(RespNullArray, next)
                    ELSE LET r == DecodeSeq(buf, next, num.val, <<>>)
                         IN IF r.kind # "Complete" THEN r
                            ELSE At(RespArray(r.frame), r.next)
              [] tag = "_" -> IF line = <<>> THEN At(RespNull, next) ELSE ErrorAt
              [] tag = "#" ->
                    IF line = <<"t">> THEN At(Boolean(TRUE), next)
                    ELSE IF line = <<"f">> THEN At(Boolean(FALSE), next)
                    ELSE ErrorAt
              [] tag = "," ->
                    LET d == ParseDouble(line)
                    IN IF d.ok THEN At(Double(d.val), next) ELSE ErrorAt
              [] tag = "%" ->
                    IF ~num.ok \/ num.val < 0 THEN ErrorAt
                    ELSE LET r == DecodePairs(buf, next, num.val, RespMap_new)
                         IN IF r.kind # "Complete" THEN r
                            ELSE At(RespMap(r.frame), r.next)
              [] tag = "~" ->
                    IF ~num.ok \/ num.val < 0 THEN ErrorAt
                    ELSE LET r == DecodeSeq(buf, next, num.val, <<>>)
                         IN IF r.kind # "Complete" THEN r
                            ELSE At(RespSet(r.frame), r.next)

\* RespFrame::decode on a buffer
Decode(buf) ==
    LET r == DecodeAt(buf, 1)
    IN IF r.kind = "Complete" THEN Complete(r.frame, r.next - 1)
       ELSE IF r.kind = "Incomplete" THEN Incomplete
       ELSE ProtocolError

----------------------------------------------------------------------------
(* The frames encoded: every variant, scalars over small alphabets and      *)
(* compounds nested two deep.                                               *)

MaxTextLen == 2
MaxBulkLen == 2
MaxElems == 2
MaxExp == 10

SeqsUpTo(S, n) == UNION {[1..m -> S] : m \in 0..n}

\* SimpleString / SimpleError text and Map keys: a line without CR or LF
Texts == SeqsUpTo({"a", "1"}, MaxTextLen)
\* BulkString payloads: any bytes
Payloads == SeqsUpTo({"a", "\r", "\n"}, MaxBulkLen)
Ints == {0, 7, -7, 100, -100, 1234}
Mantissas == {<<"1">>, <<"3", "4", "4">>, <<"1", "2", "3", "4", "5", "6">>}
Zero == [neg |-> FALSE, digits |-> <<"0">>, exp |-> 0]
Doubles ==
    {Zero} \cup [neg : BOOLEAN, digits : Mantissas, exp : (-MaxExp)..MaxExp]

Scalars ==
    {SimpleString(t) : t \in Texts} \cup {SimpleError(t) : t \in Texts}
        \cup {Integer(i) : i \in Ints} \cup {BulkString(b) : b \in Payloads}
        \cup {RespNullBulkString, RespNullArray, RespNull}
        \cup {Boolean(b) : b \in BOOLEAN} \cup {Double(d) : d \in Doubles}

MapKeys == {<<"f", "o", "o">>, <<"b", "a", "r">>}
MapsOver(E) == UNION {[ks -> E] : ks \in SUBSET MapKeys}
CompoundsOver(E) ==
    {RespArray(a) : a \in SeqsUpTo(E, MaxElems)}
        \cup {RespSet(a) : a \in SeqsUpTo(E, MaxElems)}
        \cup {RespMap(m) : m \in MapsOver(E)}

\* One frame of every scalar variant, as elements of compounds
Elems ==
    {SimpleString(<<"b", "a", "r">>), SimpleError(<<"E", "R", "R">>),
     Integer(-100), BulkString(<<"a", "\r", "\n", "b">>), RespNullBulkString,
     RespNullArray, RespNull, Boolean(TRUE),
     Double([neg |-> TRUE, digits |-> <<"1", "2", "3", "4", "6", "7", "8">>,
             exp |-> 3])}
\* Compounds as elements of compounds
NestedElems ==
    {RespArray(<<>>), RespArray(<<SimpleString(<<"f", "o", "o">>), Integer(7)>>),
     RespMap(<<"b", "a", "r">> :> BulkString(<<"a">>)), RespMap(RespMap_new),
     RespSet(<<Boolean(FALSE)>>), Integer(0)}

Frames == Scalars \cup CompoundsOver(Elems) \cup CompoundsOver(NestedElems)

EncInit ==
    /\ frame \in Frames
    /\ bytes = <<>>
    /\ outcome = NoOutcome
    /\ hmap = Backend_new /\ op = NoOp /\ reply = RespNull /\ last = <<>>
    /\ ConcIdle /\ CmdIdle

\* frame.encode()
DoEncode ==
    /\ bytes = <<>>
    /\ bytes' = Encode(frame)
    /\ UNCHANGED <<frame, outcome, storeVars, concVars, cmdVars>>

\* RespFrame::decode(&mut buf) on the encoded bytes
DoDecode ==
    /\ bytes # <<>>
    /\ outcome = NoOutcome
    /\ outcome' = Decode(bytes)
    /\ UNCHANGED <<frame, bytes, storeVars, concVars, cmdVars>>

EncNext == DoEncode \/ DoDecode

EncSpec == EncInit /\ [][EncNext]_vars

\* C6: encoding then decoding is the identity on frames: for every
\* representable frame f, decoding encode(f) yields Complete(f, n) with n the
\* full length of encode(f).
C6_RoundTrip ==
    outcome # NoOutcome => outcome = Complete(frame, Len(bytes))

C6_Witness ==
    /\ frame.type = "Map"
    /\ DOMAIN frame.val = MapKeys
    /\ \E k \in MapKeys : frame.val[k].type = "Array" /\ frame.val[k].val # <<>>
    /\ outcome = Complete(frame, Len(bytes))
    /\ Len(bytes) > 20

\* The rendering of a Double frame, between the ',' and the CRLF
Rendered == SubSeq(bytes, 2, Len(bytes) - 2)
IsScientific(t) == IndexOf(t, {"e", "E"}) # 0
\* signed fixed point: an explicit sign, digits, at most one '.', no exponent
IsSignedFixed(t) ==
    /\ Len(t) >= 2
    /\ t[1] \in {"+", "-"}
    /\ IsDigit(t[2])
    /\ \A i \in 2..Len(t) : IsDigit(t[i]) \/ t[i] = "."
    /\ Cardinality({i \in 1..Len(t) : t[i] = "."}) <= 1

\* C7: the encoder renders a Double in signed scientific notation exactly when
\* |value| > 1e8, or |value| < 1e-8 and the value is nonzero; every other
\* Double, zero included, is rendered as signed fixed point with an explicit
\* leading sign, prefixed with ',' and terminated by CRLF.
C7_ScientificOutsideRange ==
    (frame.type = "Double" /\ bytes # <<>>) =>
        /\ bytes[1] = ","
        /\ SubSeq(bytes, Len(bytes) - 1, Len(bytes)) = CRLF
        /\ IsScientific(Rendered) <=>
               (AbsGreater1e8(frame.val)
                    \/ (AbsLess1em8(frame.val) /\ ~IsZero(frame.val)))
        /\ ~IsScientific(Rendered) => IsSignedFixed(Rendered)

----------------------------------------------------------------------------
(* Command model: TryFrom<RespArray> for HGet, HGetAll and HSet.           *)
(* A RespArray is the sequence of its elements; the byte 0xFF, which no    *)
(* UTF-8 text contains, is written "FF".                                   *)

Ok(c) == [ok |-> TRUE, err |-> "", cmd |-> c]
Err(e) == [ok |-> FALSE, err |-> e, cmd |-> NoCmd]

\* u8::to_ascii_lowercase on the letters of the model
LowerChar(c) ==
    CASE c = "A" -> "a" [] c = "E" -> "e" [] c = "G" -> "g" [] c = "H" -> "h"
      [] c = "L" -> "l" [] c = "S" -> "s" [] c = "T" -> "t" [] OTHER -> c
to_ascii_lowercase(b) == [i \in 1..Len(b) |-> LowerChar(b[i])]

\* String::from_utf8: fails on bytes that are not UTF-8 text
from_utf8(b) ==
    IF \E i \in 1..Len(b) : b[i] = "FF"
    THEN [ok |-> FALSE, val |-> <<>>]
    ELSE [ok |-> TRUE, val |-> b]

\* validate_command: the element count is the arity plus the name, and
\* element 0 is a BulkString that equals the name, ignoring ASCII case
validate_command(value, name, n_args) ==
    IF Len(value) # n_args + 1 THEN Err("InvalidArgument")
    ELSE IF value[1].type # "BulkString" THEN Err("InvalidArgument")
    ELSE IF to_ascii_lowercase(value[1].val) # name THEN Err("InvalidArgument")
    ELSE Ok(NoCmd)

\* extract_args: the elements from index start on (start counted from 0)
extract_args(value, start) == SubSeq(value, start + 1, Len(value))

HGet_try_from(value) ==
    LET valid == validate_command(value, <<"h", "g", "e", "t">>, 2)
        args == extract_args(value, 1)
    IN IF ~valid.ok THEN valid
       ELSE IF args[1].type = "BulkString" /\ args[2].type = "BulkString"
       THEN LET key == from_utf8(args[1].val)
                field == from_utf8(args[2].val)
            IN IF ~key.ok \/ ~field.ok THEN Err("InvalidArgument")
               ELSE Ok([name |-> "HGet", key |-> key.val, field |-> field.val,
                        value |-> RespNull])
       ELSE Err("InvalidArgument")

HGetAll_try_from(value) ==
    LET valid == validate_command(value, <<"h", "g", "e", "t", "a", "l", "l">>, 1)
        args == extract_args(value, 1)
    IN IF ~valid.ok THEN valid
       ELSE IF args[1].type = "BulkString"
       THEN LET key == from_utf8(args[1].val)
            IN IF ~key.ok THEN Err("InvalidArgument")
               ELSE Ok([name |-> "HGetAll", key |-> key.val, field |-> <<>>,
                        value |-> RespNull])
       ELSE Err("InvalidArgument")

HSet_try_from(value) ==
    LET valid == validate_command(value, <<"h", "s", "e", "t">>, 3)
        args == extract_args(value, 1)
    IN IF ~valid.ok THEN valid
       ELSE IF args[1].type = "BulkString" /\ args[2].type = "BulkString"
       THEN LET key == from_utf8(args[1].val)
                field == from_utf8(args[2].val)
            IN IF ~key.ok \/ ~field.ok THEN Err("InvalidArgument")
               ELSE Ok([name |-> "HSet", key |-> key.val, field |-> field.val,
                        value |-> args[3]])
       ELSE Err("InvalidArgument")

MaxArrayLen == 4

\* The elements a request is built from: command names in either case, a
\* text argument, a binary argument, and frames that are no BulkString
Elements ==
    {BulkString(<<"h", "g", "e", "t">>), BulkString(<<"H", "S", "E", "T">>),
     BulkString(<<"h", "s", "e", "t">>),
     BulkString(<<"h", "g", "e", "t", "a", "l", "l">>),
     BulkString(<<"k">>), BulkString(<<"FF">>),
     Integer(1), SimpleString(<<"h", "s", "e", "t">>)}
Inputs == SeqsUpTo(Elements, MaxArrayLen)
NoParse == [as |-> "none", result |-> Err("")]

CmdInit ==
    /\ input \in Inputs
    /\ parsed = NoParse
    /\ hmap = Backend_new /\ op = NoOp /\ reply = RespNull /\ last = <<>>
    /\ ConcIdle /\ EncIdle

TryHGet ==
    /\ parsed = NoParse
    /\ parsed' = [as |-> "hget", result |-> HGet_try_from(input)]
    /\ UNCHANGED <<input, storeVars, concVars, encVars>>

TryHGetAll ==
    /\ parsed = NoParse
    /\ parsed' = [as |-> "hgetall", result |-> HGetAll_try_from(input)]
    /\ UNCHANGED <<input, storeVars, concVars, encVars>>

TryHSet ==
    /\ parsed = NoParse
    /\ parsed' = [as |-> "hset", result |-> HSet_try_from(input)]
    /\ UNCHANGED <<input, storeVars, concVars, encVars>>

CmdNext == TryHGet \/ TryHGetAll \/ TryHSet

CmdSpec == CmdInit /\ [][CmdNext]_vars

AllBulkStrings(value) == \A i \in 1..Len(value) : value[i].type = "BulkString"
Arity(as) == CASE as = "hget" -> 2 [] as = "hset" -> 3 [] as = "hgetall" -> 1
NameOf(as) ==
    CASE as = "hget" -> <<"h", "g", "e", "t">>
      [] as = "hset" -> <<"h", "s", "e", "t">>
      [] as = "hgetall" -> <<"h", "g", "e", "t", "a", "l", "l">>

\* C8: parsing HGET, HSET or HGETALL from an Array fails with InvalidArgument
\* and produces no command whenever any element is not a BulkString, at any
\* position, the value position of HSET included; a command is produced only
\* when every element is a BulkString, the element count equals the fixed
\* arity and element 0 matches the command name.
C8_OnlyBulkStrings ==
    parsed # NoParse =>
        /\ ~AllBulkStrings(input) => parsed.result = Err("InvalidArgument")
        /\ parsed.result.ok =>
               /\ AllBulkStrings(input)
               /\ Len(input) = Arity(parsed.as) + 1
               /\ to_ascii_lowercase(input[1].val) = NameOf(parsed.as)

====
